---- MODULE Spec2Model ----
(***************************************************************************)
(* Thread-count assignment for the default task pools                      *)
(* (crates/bevy_core/src/task_pool_options.rs).                            *)
(*                                                                         *)
(* Numbers.  usize values are modelled as naturals; TLC integers are 32    *)
(* bits wide, so USIZE_MAX stands at 2^31-1: the code only compares,       *)
(* clamps and saturating-subtracts usize values, none of which depends on  *)
(* the width.  An f32 is modelled exactly: `percent` is a multiple of 1/4  *)
(* (exact in f32) held as its number of quarters, and every f32 result is  *)
(* rounded to 24 significant bits, ties to even, as IEEE-754 does.         *)
(***************************************************************************)
EXTENDS Integers, Naturals, Sequences, FiniteSets, TLC

VARIABLES
    pc,        \* position of the caller: idle, ready, io, async_compute,
               \* compute, done, panicked, returned
    built_by,  \* which constructor built `options` (and its argument)
    options,   \* the DefaultTaskPoolOptions value (`self`)
    locals,    \* locals of create_default_pools, by name, once assigned
    registry,  \* the process-wide pools that exist, by pool
    probe      \* one direct call of get_number_of_threads and its result

vars == <<pc, built_by, options, locals, registry, probe>>

----------------------------------------------------------------------------
(* Bounds of the exploration *)

MaxCores == 8
MaxThreadCount == 8
MaxMinThreads == 2
MaxPercent == 6

(* Counts above 2^24, where `as f32` is no longer exact *)
LargeCounts == {16777217, 16777219, 268435465}

CoreCounts == (1..MaxCores) \cup LargeCounts
ThreadCounts == (0..MaxThreadCount) \cup LargeCounts

----------------------------------------------------------------------------
(* Program constants *)

USIZE_MAX == 2147483647

(* `percent` is held in units of 1/PercentUnit *)
PercentUnit == 4

(* the value a panicking call yields instead of a usize *)
Panic == -1

F32_SIGNIFICAND == 16777216

IO == "IO"
AsyncCompute == "AsyncCompute"
Compute == "Compute"

CatchAndIgnore == "CatchAndIgnore"
Propagate == "Propagate"

----------------------------------------------------------------------------
(* f32 arithmetic of line 23 *)

\* the spacing of f32 values around n (1 up to 2^24, then doubling)
RECURSIVE f32_ulp(_)
f32_ulp(n) == IF n < F32_SIGNIFICAND THEN 1 ELSE 2 * f32_ulp(n \div 2)

\* n rounded to the nearest f32, ties to even
f32_nearest(n) ==
    LET u == f32_ulp(n)
        q == n \div u
        r == n % u
    IN  IF 2 * r < u THEN q * u
        ELSE IF 2 * r > u THEN (q + 1) * u
        ELSE IF q % 2 = 0 THEN q * u ELSE (q + 1) * u

\* `total_threads as f32`
usize_as_f32(n) == f32_nearest(n)

\* `x * self.percent` for an integral f32 x; the result in units of 1/PercentUnit
f32_mul(x, percent) == f32_nearest(x * percent)

\* `.round() as usize` of a non-negative f32 given in units of 1/PercentUnit:
\* half away from zero, saturating at usize::MAX
f32_round_as_usize(quarters) ==
    LET rounded == (quarters + PercentUnit \div 2) \div PercentUnit
    IN  IF rounded > USIZE_MAX THEN USIZE_MAX ELSE rounded

usize_min(a, b) == IF a < b THEN a ELSE b

\* Ord::clamp: asserts min <= max
usize_clamp(x, min, max) ==
    IF min > max THEN Panic
    ELSE IF x < min THEN min
    ELSE IF x > max THEN max
    ELSE x

\* variant: plain subtraction
plain_sub(a, b) == a - b

saturating_sub(a, b) == IF a < b THEN 0 ELSE a - b

----------------------------------------------------------------------------
(* TaskPoolThreadAssignmentPolicy::get_number_of_threads *)

\* variant: the result capped at the remaining budget after the clamp
get_number_of_threads_capped(self, remaining_threads, total_threads) ==
    IF ~(self.percent >= 0) THEN Panic
    ELSE LET desired == f32_round_as_usize(f32_mul(usize_as_f32(total_threads), self.percent))
             clamped == usize_clamp(desired, self.min_threads, self.max_threads)
         IN  IF clamped = Panic THEN Panic ELSE usize_min(clamped, remaining_threads)

\* variant: the remaining budget not consulted
get_number_of_threads_unlimited(self, remaining_threads, total_threads) ==
    IF ~(self.percent >= 0) THEN Panic
    ELSE LET desired == f32_round_as_usize(f32_mul(usize_as_f32(total_threads), self.percent))
         IN  usize_clamp(desired, self.min_threads, self.max_threads)

\* variant: no assertion on percent; a negative f32 casts to 0
get_number_of_threads_unasserted(self, remaining_threads, total_threads) ==
    LET desired == IF self.percent >= 0
                   THEN f32_round_as_usize(f32_mul(usize_as_f32(total_threads), self.percent))
                   ELSE 0
        limited == usize_min(desired, remaining_threads)
    IN  usize_clamp(limited, self.min_threads, self.max_threads)

get_number_of_threads(self, remaining_threads, total_threads) ==
    IF ~(self.percent >= 0) THEN Panic
    ELSE LET desired == f32_round_as_usize(f32_mul(usize_as_f32(total_threads), self.percent))
             limited == usize_min(desired, remaining_threads)
         IN  usize_clamp(limited, self.min_threads, self.max_threads)

----------------------------------------------------------------------------
(* Configurations *)

Default ==
    [ min_total_threads |-> 1,
      max_total_threads |-> USIZE_MAX,
      io |-> [ assignment_policy |-> [min_threads |-> 1, max_threads |-> 4, percent |-> 1],
               panic_policy |-> CatchAndIgnore ],
      async_compute |-> [ assignment_policy |-> [min_threads |-> 1, max_threads |-> 4, percent |-> 1],
                          panic_policy |-> Propagate ],
      compute |-> [ assignment_policy |-> [min_threads |-> 1, max_threads |-> USIZE_MAX, percent |-> 4],
                    panic_policy |-> Propagate ] ]

\* variant: only the upper bound pinned
with_num_threads_max_only(thread_count) ==
    [Default EXCEPT !.max_total_threads = thread_count]

with_num_threads(thread_count) ==
    [Default EXCEPT !.min_total_threads = thread_count,
                    !.max_total_threads = thread_count]

NoOptions == [none |-> TRUE]
NotBuilt == [fn |-> "none"]
NoLocals == <<>>
NoPools == <<>>
NoProbe == <<>>

PanicPolicies == {CatchAndIgnore, Propagate}

\* assignment policies written out in a struct literal
LiteralPolicies ==
    [min_threads : 0..MaxMinThreads, max_threads : {1, USIZE_MAX}, percent : {-1, 1, PercentUnit}]

\* pool policies put in place of one pool's default ones
UpdatePolicies ==
    [assignment_policy : [min_threads : 0..MaxMinThreads, max_threads : {1, 4},
                          percent : {-1, 0, 2}],
     panic_policy : PanicPolicies]

\* arguments of a direct call of get_number_of_threads
ProbePolicies ==
    [min_threads : 0..(MaxMinThreads + 1), max_threads : (0..4) \cup {USIZE_MAX},
     percent : (-1)..MaxPercent]
ProbeCounts == (0..MaxCores) \cup LargeCounts

----------------------------------------------------------------------------
(* The pool statics of bevy_tasks: create if absent *)

TaskPoolInit(pools, pool, built) ==
    IF pool \in DOMAIN pools THEN pools ELSE pools @@ (pool :> built)

\* TaskPoolBuilder::default().num_threads(n).thread_name(name).panic_policy(p).build()
TaskPoolBuild(n, name, policy) ==
    [num_threads |-> n, thread_name |-> name, panic_policy |-> policy]

----------------------------------------------------------------------------
(* Constructing the options *)

construct_default ==
    /\ pc = "idle"
    /\ options' = Default
    /\ built_by' = [fn |-> "default"]
    /\ pc' = "ready"
    /\ UNCHANGED <<locals, registry, probe>>

construct_with_num_threads ==
    /\ pc = "idle"
    /\ \E thread_count \in ThreadCounts :
          /\ options' = with_num_threads(thread_count)
          /\ built_by' = [fn |-> "with_num_threads", thread_count |-> thread_count]
    /\ pc' = "ready"
    /\ UNCHANGED <<locals, registry, probe>>

\* DefaultTaskPoolOptions { io: .., async_compute: .., compute: .., ..Default::default() }
construct_literal ==
    /\ pc = "idle"
    /\ \E i \in LiteralPolicies, a \in LiteralPolicies, c \in LiteralPolicies :
          options' = [Default EXCEPT !.io.assignment_policy = i,
                                     !.async_compute.assignment_policy = a,
                                     !.compute.assignment_policy = c]
    /\ built_by' = [fn |-> "literal"]
    /\ pc' = "ready"
    /\ UNCHANGED <<locals, registry, probe>>

\* a struct literal that replaces the total bounds or one pool's policies
construct_update ==
    /\ pc = "idle"
    /\ \/ \E lo \in 0..MaxMinThreads, hi \in {1, 3, USIZE_MAX} :
             options' = [Default EXCEPT !.min_total_threads = lo, !.max_total_threads = hi]
       \/ \E p \in UpdatePolicies : options' = [Default EXCEPT !.io = p]
       \/ \E p \in UpdatePolicies : options' = [Default EXCEPT !.async_compute = p]
       \/ \E p \in UpdatePolicies : options' = [Default EXCEPT !.compute = p]
    /\ built_by' = [fn |-> "literal"]
    /\ pc' = "ready"
    /\ UNCHANGED <<locals, registry, probe>>

----------------------------------------------------------------------------
(* DefaultTaskPoolOptions::create_default_pools, block by block *)

\* lines 116-120: probe the cores, clamp, start the budget
total_threads_block ==
    /\ pc = "ready"
    /\ \E logical_core_count \in CoreCounts :
          LET total_threads == usize_clamp(logical_core_count, options.min_total_threads,
                                           options.max_total_threads)
          IN  IF total_threads = Panic
              THEN /\ pc' = "panicked"
                   /\ locals' = [logical_core_count |-> logical_core_count]
              ELSE /\ pc' = "io"
                   /\ locals' = [logical_core_count |-> logical_core_count,
                                 total_threads |-> total_threads,
                                 remaining_threads |-> total_threads]
    /\ UNCHANGED <<built_by, options, registry, probe>>

\* variant: the IO pool replaced when it exists
io_block_replacing ==
    /\ pc = "io"
    /\ LET io_threads == get_number_of_threads(options.io.assignment_policy,
                                               locals.remaining_threads, locals.total_threads)
       IN  IF io_threads = Panic
           THEN /\ pc' = "panicked"
                /\ UNCHANGED <<locals, registry>>
           ELSE /\ pc' = "async_compute"
                /\ locals' = [locals EXCEPT !.remaining_threads = saturating_sub(@, io_threads)]
                                @@ [io_threads |-> io_threads]
                /\ registry' = (IO :> TaskPoolBuild(io_threads, "IO Task Pool",
                                                    options.io.panic_policy)) @@ registry
    /\ UNCHANGED <<built_by, options, probe>>

\* lines 122-139
io_block ==
    /\ pc = "io"
    /\ LET io_threads == get_number_of_threads(options.io.assignment_policy,
                                               locals.remaining_threads, locals.total_threads)
       IN  IF io_threads = Panic
           THEN /\ pc' = "panicked"
                /\ UNCHANGED <<locals, registry>>
           ELSE /\ pc' = "async_compute"
                /\ locals' = [locals EXCEPT !.remaining_threads = saturating_sub(@, io_threads)]
                                @@ [io_threads |-> io_threads]
                /\ registry' = TaskPoolInit(registry, IO,
                                    TaskPoolBuild(io_threads, "IO Task Pool", options.io.panic_policy))
    /\ UNCHANGED <<built_by, options, probe>>

\* lines 141-158
async_compute_block ==
    /\ pc = "async_compute"
    /\ LET async_compute_threads ==
               get_number_of_threads(options.async_compute.assignment_policy,
                                     locals.remaining_threads, locals.total_threads)
       IN  IF async_compute_threads = Panic
           THEN /\ pc' = "panicked"
                /\ UNCHANGED <<locals, registry>>
           ELSE /\ pc' = "compute"
                /\ locals' = [locals EXCEPT !.remaining_threads =
                                                saturating_sub(@, async_compute_threads)]
                                @@ [async_compute_threads |-> async_compute_threads]
                /\ registry' = TaskPoolInit(registry, AsyncCompute,
                                    TaskPoolBuild(async_compute_threads, "Async Compute Task Pool",
                                                  options.async_compute.panic_policy))
    /\ UNCHANGED <<built_by, options, probe>>

\* lines 160-177
compute_block ==
    /\ pc = "compute"
    /\ LET compute_threads ==
               get_number_of_threads(options.compute.assignment_policy,
                                     locals.remaining_threads, locals.total_threads)
       IN  IF compute_threads = Panic
           THEN /\ pc' = "panicked"
                /\ UNCHANGED <<locals, registry>>
           ELSE /\ pc' = "done"
                /\ locals' = locals @@ [compute_threads |-> compute_threads]
                /\ registry' = TaskPoolInit(registry, Compute,
                                    TaskPoolBuild(compute_threads, "Compute Task Pool",
                                                  options.compute.panic_policy))
    /\ UNCHANGED <<built_by, options, probe>>

\* line 178: the call returns; its locals and the borrowed options are gone
return_block ==
    /\ pc = "done"
    /\ pc' = "idle"
    /\ options' = NoOptions
    /\ built_by' = NotBuilt
    /\ locals' = NoLocals
    /\ UNCHANGED <<registry, probe>>

----------------------------------------------------------------------------
(* One direct call of get_number_of_threads *)

call_get_number_of_threads ==
    /\ pc = "idle"
    /\ \E self \in ProbePolicies, remaining_threads \in ProbeCounts, total_threads \in ProbeCounts :
          probe' = [self |-> self, remaining_threads |-> remaining_threads,
                    total_threads |-> total_threads,
                    result |-> get_number_of_threads(self, remaining_threads, total_threads)]
    /\ pc' = "returned"
    /\ UNCHANGED <<built_by, options, locals, registry>>

----------------------------------------------------------------------------
(* Specifications *)

Init ==
    /\ pc = "idle"
    /\ built_by = NotBuilt
    /\ options = NoOptions
    /\ locals = NoLocals
    /\ registry = NoPools
    /\ probe = NoProbe

\* one run of the start-up procedure, or one direct call of the policy
Next ==
    \/ construct_default
    \/ construct_with_num_threads
    \/ construct_literal
    \/ construct_update
    \/ total_threads_block
    \/ io_block
    \/ async_compute_block
    \/ compute_block
    \/ call_get_number_of_threads

Spec == Init /\ [][Next]_vars

\* the procedure called again and again on the same process
NextAgain ==
    \/ construct_default
    \/ construct_with_num_threads
    \/ construct_update
    \/ total_threads_block
    \/ io_block
    \/ async_compute_block
    \/ compute_block
    \/ return_block

SpecAgain == Init /\ [][NextAgain]_vars

----------------------------------------------------------------------------
(* Vocabulary of the properties.  Written from the definitions of the      *)
(* documentation, independently of the operators above.                    *)

\* round(total * percent) over the reals, half away from zero
ExactRound(total, percent) == (total * percent + PercentUnit \div 2) \div PercentUnit

Least(a, b) == IF a <= b THEN a ELSE b
MonusOf(a, b) == IF a - b > 0 THEN a - b ELSE 0
ClampOf(x, lo, hi) == IF x < lo THEN lo ELSE IF x > hi THEN hi ELSE x

Has(name) == name \in DOMAIN locals

Returned == pc = "returned"

\* the three pools carry the documented default assignment policies
DefaultPolicies ==
    /\ pc \notin {"idle", "returned"}
    /\ options.io.assignment_policy = [min_threads |-> 1, max_threads |-> 4, percent |-> 1]
    /\ options.async_compute.assignment_policy = [min_threads |-> 1, max_threads |-> 4, percent |-> 1]
    /\ options.compute.assignment_policy =
           [min_threads |-> 1, max_threads |-> USIZE_MAX, percent |-> PercentUnit]

\* the budget each pool saw, recomputed from the counts
SeenByIo == locals.total_threads
SeenByAsyncCompute == MonusOf(SeenByIo, locals.io_threads)
SeenByCompute == MonusOf(SeenByAsyncCompute, locals.async_compute_threads)

SumOfCounts == locals.io_threads + locals.async_compute_threads + locals.compute_threads

\* a pool got its min_threads although its target and the budget it saw were lower
Floored(policy, count, seen) ==
    /\ count = policy.min_threads
    /\ count > Least(ExactRound(locals.total_threads, policy.percent), seen)

----------------------------------------------------------------------------
(* C1: for a policy with percent in [0,1] and min_threads <= max_threads,  *)
(* get_number_of_threads returns r with min_threads <= r <= max_threads,   *)
(* for every remaining_threads and total_threads; when min_threads exceeds *)
(* remaining_threads the result still is at least min_threads.             *)
C1_WithinMinMax ==
    (/\ Returned
     /\ probe.self.percent >= 0
     /\ probe.self.percent <= PercentUnit
     /\ probe.self.min_threads <= probe.self.max_threads)
    => /\ probe.result >= probe.self.min_threads
       /\ probe.result <= probe.self.max_threads

C1_Witness ==
    /\ Returned
    /\ probe.self.percent \in 1..PercentUnit
    /\ probe.self.min_threads <= probe.self.max_threads
    /\ probe.self.min_threads > probe.remaining_threads
    /\ probe.total_threads > 0
    /\ probe.result = probe.self.min_threads
    /\ probe.result > probe.remaining_threads

----------------------------------------------------------------------------
(* C2: during create_default_pools the remaining budget is never negative  *)
(* and never increases: it starts at total_threads, and after the IO block *)
(* and after the AsyncCompute block it is max(0, previous remaining - that *)
(* pool's count), also when min_threads pushed the count above it.         *)
C2_Step ==
    /\ (pc = "ready" /\ pc' = "io")
          => locals'.remaining_threads = locals'.total_threads
    /\ (pc = "io" /\ pc' = "async_compute")
          => /\ locals'.remaining_threads =
                    MonusOf(locals.remaining_threads, locals'.io_threads)
             /\ locals'.remaining_threads <= locals.remaining_threads
    /\ (pc = "async_compute" /\ pc' = "compute")
          => /\ locals'.remaining_threads =
                    MonusOf(locals.remaining_threads, locals'.async_compute_threads)
             /\ locals'.remaining_threads <= locals.remaining_threads
    /\ (pc = "compute" /\ pc' = "done")
          => locals'.remaining_threads = locals.remaining_threads
    /\ (pc' \in {"io", "async_compute", "compute", "done"})
          => locals'.remaining_threads >= 0

C2_RemainingNeverNegative == [][C2_Step]_vars

C2_Witness ==
    /\ pc = "compute"
    /\ locals.total_threads > 0
    /\ locals.io_threads < locals.total_threads
    /\ locals.async_compute_threads > locals.total_threads - locals.io_threads
    /\ locals.remaining_threads = 0

----------------------------------------------------------------------------
(* C3: when the three counts sum to more than total_threads, at least one  *)
(* pool got its min_threads floor: its count equals its min_threads and is *)
(* greater than min(round(total_threads * percent), remaining at its       *)
(* step).  With no pool floored the counts sum to at most total_threads.   *)
C3_OverAllocationOnlyByFloor ==
    (pc = "done" /\ SumOfCounts > locals.total_threads)
    => \/ Floored(options.io.assignment_policy, locals.io_threads, SeenByIo)
       \/ Floored(options.async_compute.assignment_policy, locals.async_compute_threads,
                  SeenByAsyncCompute)
       \/ Floored(options.compute.assignment_policy, locals.compute_threads, SeenByCompute)

C3_Witness ==
    /\ pc = "done"
    /\ SumOfCounts > locals.total_threads
    /\ locals.total_threads >= 2
    /\ ~Floored(options.io.assignment_policy, locals.io_threads, SeenByIo)
    /\ ~Floored(options.async_compute.assignment_policy, locals.async_compute_threads,
                SeenByAsyncCompute)
    /\ Floored(options.compute.assignment_policy, locals.compute_threads, SeenByCompute)

----------------------------------------------------------------------------
(* C4: a later call of create_default_pools, with any options and cores,   *)
(* leaves every pool that exists as it is, thread count and panic policy:  *)
(* the counts it computes are discarded.                                   *)
C4_Step ==
    \A pool \in DOMAIN registry :
        /\ pool \in DOMAIN registry'
        /\ registry'[pool] = registry[pool]

C4_ExistingPoolsKept == [][C4_Step]_vars

C4_Witness ==
    /\ pc = "done"
    /\ registry[IO].num_threads # locals.io_threads
    /\ registry[IO].panic_policy # options.io.panic_policy
    /\ registry[AsyncCompute].num_threads # locals.async_compute_threads
    /\ registry[Compute].num_threads # locals.compute_threads

----------------------------------------------------------------------------
(* C5: for percent >= 0, when round(total_threads * percent), rounded half *)
(* away from zero, is at most remaining_threads and lies in [min_threads,  *)
(* max_threads], get_number_of_threads returns exactly that value.         *)
C5_ReturnsExactRound ==
    (/\ Returned
     /\ probe.self.percent >= 0
     /\ ExactRound(probe.total_threads, probe.self.percent) <= probe.remaining_threads
     /\ ExactRound(probe.total_threads, probe.self.percent) >= probe.self.min_threads
     /\ ExactRound(probe.total_threads, probe.self.percent) <= probe.self.max_threads)
    => probe.result = ExactRound(probe.total_threads, probe.self.percent)

----------------------------------------------------------------------------
(* C6: a negative percent always aborts: get_number_of_threads on a policy *)
(* with percent < 0 fails its assertion and returns no count, whatever the *)
(* other parameters, and create_default_pools with a negative percent on   *)
(* any pool never completes: it stops at that pool's block.                *)
C6_NegativePercentAborts ==
    /\ (Returned /\ probe.self.percent < 0) => probe.result = Panic
    /\ pc \in {"async_compute", "compute", "done"}
          => (options.io.assignment_policy.percent >= 0 /\ Has("io_threads"))
    /\ pc \in {"compute", "done"}
          => (options.async_compute.assignment_policy.percent >= 0
              /\ Has("async_compute_threads"))
    /\ pc = "done"
          => (options.compute.assignment_policy.percent >= 0 /\ Has("compute_threads"))
    /\ (pc = "panicked" /\ Has("total_threads") /\ ~Has("io_threads"))
          => registry = NoPools
    /\ (pc = "panicked" /\ ~Has("compute_threads")) => Compute \notin DOMAIN registry

C6_Witness ==
    /\ pc = "panicked"
    /\ options.io.assignment_policy.percent >= 0
    /\ options.async_compute.assignment_policy.percent >= 0
    /\ options.compute.assignment_policy.percent < 0
    /\ options.compute.assignment_policy.min_threads <= options.compute.assignment_policy.max_threads
    /\ Has("async_compute_threads")
    /\ ~Has("compute_threads")

----------------------------------------------------------------------------
(* C7: with the default pool policies and total_threads = 1 the IO,        *)
(* AsyncCompute and Compute pools get 1 thread each, 3 for a budget of 1,  *)
(* and the remaining budget is 0 after the IO block and stays 0.           *)
C7_SingleCore ==
    (DefaultPolicies /\ Has("total_threads") /\ locals.total_threads = 1)
    => /\ pc # "panicked"
       /\ pc = "io" => locals.remaining_threads = 1
       /\ pc \in {"async_compute", "compute", "done"}
             => (locals.io_threads = 1 /\ locals.remaining_threads = 0)
       /\ pc \in {"compute", "done"} => locals.async_compute_threads = 1
       /\ pc = "done"
             => /\ locals.compute_threads = 1
                /\ SumOfCounts = 3
                /\ registry[IO].num_threads = 1
                /\ registry[AsyncCompute].num_threads = 1
                /\ registry[Compute].num_threads = 1

C7_Witness ==
    /\ DefaultPolicies
    /\ pc = "done"
    /\ locals.total_threads = 1
    /\ SumOfCounts = 3

----------------------------------------------------------------------------
(* C8: with the default pool policies, for every total_threads >= 3 the    *)
(* three counts sum to exactly total_threads; for total_threads = 8 they   *)
(* are 2, 2 and 4, with 6 remaining after IO and 4 after AsyncCompute.     *)
C8_DefaultsConsumeBudget ==
    (DefaultPolicies /\ Has("total_threads") /\ locals.total_threads >= 3)
    => /\ pc # "panicked"
       /\ pc = "done" => SumOfCounts = locals.total_threads
       /\ locals.total_threads = 8
             => /\ pc = "async_compute" => (locals.io_threads = 2 /\ locals.remaining_threads = 6)
                /\ pc = "compute"
                      => (locals.async_compute_threads = 2 /\ locals.remaining_threads = 4)
                /\ pc = "done" => locals.compute_threads = 4

----------------------------------------------------------------------------
(* C9: options built by with_num_threads(N) have min_total_threads =       *)
(* max_total_threads = N and the default pool policies, and                *)
(* create_default_pools uses total_threads = N on them for every core      *)
(* count; in general total_threads is the core count clamped into          *)
(* [min_total_threads, max_total_threads].                                 *)
C9_TotalThreads ==
    /\ built_by.fn = "with_num_threads"
          => /\ options.min_total_threads = built_by.thread_count
             /\ options.max_total_threads = built_by.thread_count
             /\ DefaultPolicies
             /\ options.io.panic_policy = CatchAndIgnore
             /\ options.async_compute.panic_policy = Propagate
             /\ options.compute.panic_policy = Propagate
             /\ pc \notin {"ready", "panicked"}
                   => locals.total_threads = built_by.thread_count
    /\ Has("total_threads")
          => locals.total_threads = ClampOf(locals.logical_core_count,
                                            options.min_total_threads,
                                            options.max_total_threads)

C9_Witness ==
    /\ built_by.fn = "with_num_threads"
    /\ pc = "done"
    /\ locals.logical_core_count > built_by.thread_count
    /\ built_by.thread_count = 6
    /\ locals.total_threads = 6

----------------------------------------------------------------------------
(* C10: the pools are sized in the order IO, AsyncCompute, Compute, each   *)
(* seeing the budget the earlier ones left; so when the Compute policy has *)
(* percent = 1.0 and the budget left after IO and AsyncCompute lies in     *)
(* [compute.min_threads, compute.max_threads], the Compute pool gets       *)
(* exactly that budget.                                                    *)
C10_ComputeAbsorbsRemainder ==
    /\ Has("compute_threads") => (Has("async_compute_threads") /\ Has("io_threads"))
    /\ Has("async_compute_threads") => Has("io_threads")
    /\ (/\ pc = "done"
        /\ options.compute.assignment_policy.percent = PercentUnit
        /\ SeenByCompute >= options.compute.assignment_policy.min_threads
        /\ SeenByCompute <= options.compute.assignment_policy.max_threads)
       => locals.compute_threads = SeenByCompute

====
